---- MODULE Spec2Model ----
(***************************************************************************)
(* Model of ark-xsk233: the Xsk233Affine / Xsk233Projective wrappers       *)
(* around the xs233_sys engine's opaque xsk233_point, their arithmetic,    *)
(* equality, hashing and 30-byte compressed serialization.                 *)
(*                                                                         *)
(* The engine (xs233_sys) is an external library.  It is modelled by its   *)
(* contract: a cyclic group of order Order whose elements have Reps        *)
(* internal representations each (the engine's projective scaling), with   *)
(* an equality primitive that returns 0xFFFFFFFF or 0, a 30-byte canonical *)
(* encoding and a decode primitive that rejects non-canonical input.       *)
(***************************************************************************)
EXTENDS Integers, Sequences, FiniteSets, TLC

\* ------------------------------------------------------------------ bounds
\* Order of the group and modulus of the scalar field Fr.  The program's r
\* is a 232-bit prime; the model keeps a small prime, the OrderIndex-th of
\* SmallPrimes.
OrderIndex == 1
SmallPrimes == <<5, 7, 11, 13>>
Order == SmallPrimes[OrderIndex]
\* Number of internal representations the engine has for one group element.
Reps == 2
\* Longest sequence of points handed to sum().
MaxItems == 3
\* Largest number of non-zero 16-bit words in a scalar handed to
\* bigint_to_le_bytes on its own.
MaxWords == 2

\* -------------------------------------------------------- program constants
COMPRESSED_POINT_SIZE == 30

\* A u32 is kept as its two 16-bit halves <<high, low>>.
U32(hi, lo) == <<hi, lo>>
U32Zero == U32(0, 0)
\* 0xFFFFFFFF
C_XSK233_EQUALS_TRUE == U32(65535, 65535)

Byte == 0..255
Fr == 0..(Order - 1)
Point == [e : 0..(Order - 1), z : 0..(Reps - 1)]

\* ------------------------------------------------------------------ engine
xsk233_neutral == [e |-> 0, z |-> 0]
xsk233_generator == [e |-> 1, z |-> 0]

xsk233_add(p1, p2) ==
    [e |-> (p1.e + p2.e) % Order, z |-> (p1.z + p2.z + 1) % Reps]

xsk233_neg(p1) == [e |-> (Order - p1.e) % Order, z |-> p1.z]

xsk233_sub(p1, p2) ==
    [e |-> (p1.e + Order - p2.e) % Order, z |-> (p1.z + p2.z + 1) % Reps]

xsk233_double(p1) == [e |-> (2 * p1.e) % Order, z |-> (p1.z + 1) % Reps]

xsk233_equals(p1, p2) == IF p1.e = p2.e THEN U32(65535, 65535) ELSE U32(0, 0)

\* The integer the first n_len bytes of n spell in unsigned little-endian
\* order, reduced modulo Order as it is accumulated.
RECURSIVE LeValueMod(_, _)
LeValueMod(n, n_len) ==
    IF n_len = 0 THEN 0
    ELSE (n[1] + 256 * LeValueMod(Tail(n), n_len - 1)) % Order

xsk233_mul_frob(p1, n, n_len) ==
    [e |-> (LeValueMod(n, n_len) * p1.e) % Order, z |-> (p1.z + 1) % Reps]

\* The canonical 30-byte encoding: the neutral is all zeros.
xsk233_encode(p) == [i \in 1..30 |-> IF i = 1 THEN 3 * p.e ELSE 0]

\* decode reads 30 bytes; it reports 0xFFFFFFFF and the point for a
\* canonical encoding, 0 and the neutral otherwise.
xsk233_decode(src) ==
    IF /\ \A i \in 2..30 : src[i] = 0
       /\ src[1] % 3 = 0
       /\ src[1] \div 3 < Order
    THEN [success |-> U32(65535, 65535), result |-> [e |-> src[1] \div 3, z |-> 0]]
    ELSE [success |-> U32(0, 0), result |-> xsk233_neutral]

\* ------------------------------------------------------------- lib.rs
\* A u64 is kept as its four 16-bit words, least significant first; U64(n)
\* is the u64 of a number below 2^31.
U64(n) == <<n % 65536, n \div 65536, 0, 0>>

\* u64::to_le_bytes: the eight bytes of limb, least significant first
to_le_bytes(limb) ==
    << limb[1] % 256, limb[1] \div 256, limb[2] % 256, limb[2] \div 256,
       limb[3] % 256, limb[3] \div 256, limb[4] % 256, limb[4] \div 256 >>

\* Vec::truncate
truncate(bytes, len) == IF Len(bytes) > len THEN SubSeq(bytes, 1, len) ELSE bytes

\* while let Some(&last) = bytes.last() { if last == 0 { pop } else { break } }
RECURSIVE PopZeros(_, _)
PopZeros(bytes, n) ==
    IF n = 0 THEN 0
    ELSE IF bytes[n] = 0 THEN PopZeros(bytes, n - 1) ELSE n
StripTrailingZeros(bytes) == SubSeq(bytes, 1, PopZeros(bytes, Len(bytes)))

\* The conversion without the loop that removes the trailing zeros.
bigint_to_le_bytes_NoStrip(scalar) ==
    truncate(to_le_bytes(scalar[1]) \o to_le_bytes(scalar[2])
             \o to_le_bytes(scalar[3]) \o to_le_bytes(scalar[4]), 30)

\* The conversion with the byte string cut to 28 bytes.
bigint_to_le_bytes_Truncate28(scalar) ==
    LET bytes == to_le_bytes(scalar[1]) \o to_le_bytes(scalar[2])
                 \o to_le_bytes(scalar[3]) \o to_le_bytes(scalar[4])
    IN StripTrailingZeros(truncate(bytes, 28))

bigint_to_le_bytes(scalar) ==
    LET bytes == to_le_bytes(scalar[1]) \o to_le_bytes(scalar[2])
                 \o to_le_bytes(scalar[3]) \o to_le_bytes(scalar[4])
    IN StripTrailingZeros(truncate(bytes, 30))

\* Fr::into_bigint: the four 64-bit limbs, least significant first, of the
\* canonical integer of a scalar.
into_bigint(k) == <<U64(k), U64(0), U64(0), U64(0)>>

\* BigInt<4>: sixteen 16-bit words in four limbs.  The modulus of Fr,
\* 0x8000000000000000000000000000069d5bb915bcd46efb1ad5f173abdf.
FrModulus ==
    << <<43999, 61811, 6869, 28411>>, <<48340, 47381, 40283, 6>>,
       <<0, 0, 0, 0>>, <<0, 0, 128, 0>> >>
BigIntZero == <<U64(0), U64(0), U64(0), U64(0)>>
BigIntWords(b) == b[1] \o b[2] \o b[3] \o b[4]
\* a < b, as Fr::from_bigint compares a BigInt with the modulus
BigIntLess(a, b) ==
    LET x == BigIntWords(a)
        y == BigIntWords(b)
    IN \E i \in 1..16 : x[i] < y[i] /\ \A j \in (i + 1)..16 : x[j] = y[j]

FrAdd(a, b) == (a + b) % Order

\* ------------------------------------------------- affine.rs / group.rs
\* From<Xsk233Affine> for Xsk233Projective and back: the inner point is
\* moved from one wrapper to the other.
into_group(p) == p
into_affine(p) == p

AffineZero == xsk233_neutral
AffineGenerator == xsk233_generator
ProjectiveZero == xsk233_neutral
ProjectiveGenerator == into_group(AffineGenerator)

\* PartialEq: the four equality operators
ProjectiveEq(self, other) == xsk233_equals(self, other) # U32Zero
ProjectiveEqAffine(self, other) == xsk233_equals(self, other) # U32Zero
AffineEq(self, other) == ProjectiveEq(into_group(self), into_group(other))
\* Equality tested against 1 instead of the engine's 0xFFFFFFFF.
AffineEqProjective_One(self, other) == U32(0, 1) = xsk233_equals(self, other)
AffineEqProjective(self, other) ==
    C_XSK233_EQUALS_TRUE = xsk233_equals(self, other)

AffineIsZero(self) == C_XSK233_EQUALS_TRUE = xsk233_equals(xsk233_neutral, self)
ProjectiveIsZero(self) == ProjectiveEq(self, ProjectiveZero)

\* Neg
\* A negation that writes its result elsewhere and returns self as it was.
AffineNeg_Unchanged(self) == self
AffineNeg(self) == xsk233_neg(self)
ProjectiveNeg(self) == xsk233_neg(self)

\* AdditiveGroup::double_in_place
\* A doubling that writes its result elsewhere and leaves self as it was.
double_in_place_Unchanged(self) == self
double_in_place(self) == xsk233_double(self)

\* Projective (+=, +, -=, -) Borrow<Affine>
ProjectiveAddAssignAffine(self, other) == xsk233_add(self, other)
ProjectiveAddAffine(self, other) == ProjectiveAddAssignAffine(self, other)
ProjectiveSubAssignAffine(self, other) == xsk233_sub(self, other)
ProjectiveSubAffine(self, other) == ProjectiveSubAssignAffine(self, other)

\* Projective (+=, +, -=, -) &Projective
ProjectiveAddAssignRef(self, other) == xsk233_add(self, other)
ProjectiveAddRef(self, other) == ProjectiveAddAssignRef(self, other)
ProjectiveSubAssignRef(self, other) ==
    ProjectiveAddAssignRef(self, ProjectiveNeg(other))
ProjectiveSubRef(self, other) == ProjectiveSubAssignRef(self, other)

\* impl_additive_ops_from_ref!(Xsk233Projective): Projective +/- Projective
ProjectiveAdd(self, other) == ProjectiveAddAssignRef(self, other)
ProjectiveSub(self, other) == ProjectiveSubAssignRef(self, other)

\* Affine + / - Borrow<Affine>, Affine + / - Projective
AffineAdd(self, other) == ProjectiveAddAssignAffine(into_group(self), other)
AffineAddProjective(self, other) == ProjectiveAddAffine(other, self)
AffineSub(self, other) == ProjectiveSubAssignAffine(into_group(self), other)
AffineSubProjective(self, other) ==
    AffineAddProjective(self, ProjectiveNeg(other))
AffineAddProjectiveRef(self, other) == ProjectiveAddAffine(other, self)
AffineSubProjectiveRef(self, other) ==
    AffineAddProjectiveRef(self, ProjectiveNeg(other))

\* impl_additive_ops_from_ref!(Xsk233Projective), the remaining forms.
\* p + &mut q
ProjectiveAddMut(self, other) == ProjectiveAddAssignRef(self, other)
\* &p + q: other.add_assign(self); other
RefProjectiveAdd(self, other) == ProjectiveAddAssignRef(other, self)
\* &p + &q, &p + &mut q
RefProjectiveAddRef(self, other) == ProjectiveAddAssignRef(self, other)
RefProjectiveAddMut(self, other) == ProjectiveAddAssignRef(self, other)
\* A borrowed subtraction written after the borrowed addition: the owned
\* operand is updated and returned.
RefProjectiveSub_Swapped(self, other) == ProjectiveSubAssignRef(other, self)
\* &p - q, &p - &q, &p - &mut q, p - &mut q
RefProjectiveSub(self, other) == ProjectiveSubAssignRef(self, other)
RefProjectiveSubRef(self, other) == ProjectiveSubAssignRef(self, other)
RefProjectiveSubMut(self, other) == ProjectiveSubAssignRef(self, other)
ProjectiveSubMut(self, other) == ProjectiveSubAssignRef(self, other)
\* p += q, p -= q, p += &mut q, p -= &mut q
ProjectiveAddAssign(self, other) == ProjectiveAddAssignRef(self, other)
ProjectiveSubAssign(self, other) == ProjectiveSubAssignRef(self, other)
ProjectiveAddAssignMut(self, other) == ProjectiveAddAssignRef(self, other)
ProjectiveSubAssignMut(self, other) == ProjectiveSubAssignRef(self, other)

\* MulAssign / Mul for Xsk233Projective, Mul for Xsk233Affine
\* An in-place multiplication whose product is added to the value already in
\* the buffer it shares with its operand.
ProjectiveMulAssign_Accumulates(self, other) ==
    LET scalar_bytes == bigint_to_le_bytes(into_bigint(other))
    IN xsk233_add(self, xsk233_mul_frob(self, scalar_bytes, Len(scalar_bytes)))
ProjectiveMulAssign(self, other) ==
    LET scalar_bytes == bigint_to_le_bytes(into_bigint(other))
    IN xsk233_mul_frob(self, scalar_bytes, Len(scalar_bytes))
ProjectiveMul(self, other) == ProjectiveMulAssign(self, other)
AffineMul(self, other) ==
    LET scalar_bytes == bigint_to_le_bytes(into_bigint(other))
    IN xsk233_mul_frob(self, scalar_bytes, Len(scalar_bytes))

\* ------------------------------------------------------ serialization
Compress == {"Yes", "No"}
Validate == {"Yes", "No"}

\* io::Write for Vec<u8>: write_all appends and cannot fail.
write_all(writer, buf) == writer \o buf

\* CanonicalSerialize::serialize_with_mode for Xsk233Projective: the outcome
\* and the writer after the call.
ProjectiveSerializeWithMode(self, writer, compress) ==
    IF compress = "No"
    THEN [status |-> "Unsupported", writer |-> writer]
    ELSE LET pt == self
             dst == xsk233_encode(pt)
         IN [status |-> "Ok", writer |-> write_all(writer, dst)]

\* A serializer that falls back to the compressed format.
AffineSerializeWithMode_Fallback(self, writer, compress) ==
    [status |-> "Ok", writer |-> write_all(writer, xsk233_encode(self))]

\* CanonicalSerialize::serialize_with_mode for Xsk233Affine
AffineSerializeWithMode(self, writer, compress) ==
    IF compress = "No"
    THEN [status |-> "Unsupported", writer |-> writer]
    ELSE LET pt == self
             dst == xsk233_encode(pt)
         IN [status |-> "Ok", writer |-> write_all(writer, dst)]

\* CanonicalSerialize::serialize_compressed (provided method)
ProjectiveSerializeCompressed(self, writer) ==
    ProjectiveSerializeWithMode(self, writer, "Yes")
AffineSerializeCompressed(self, writer) ==
    AffineSerializeWithMode(self, writer, "Yes")

\* CanonicalSerialize::serialized_size for Xsk233Affine
AffineSerializedSize(self, compress) == COMPRESSED_POINT_SIZE

\* SWCurveConfig::serialized_size, the provided method Xsk233CurveConfig
\* inherits: the base field element with the two flag bits when compressed,
\* a second base field element before it when not.  Fq's modulus is
\* 2^233 - 1, a 233-bit number.
FqModulusBitSize == 233
SWFlagsBitSize == 2
buffer_byte_size(modulus_bits) == (modulus_bits + 7) \div 8
FqSerializedSizeWithFlags(flag_bits) == buffer_byte_size(FqModulusBitSize + flag_bits)
CurveConfigSerializedSize(compress) ==
    IF compress = "Yes"
    THEN FqSerializedSizeWithFlags(SWFlagsBitSize)
    ELSE FqSerializedSizeWithFlags(0) + FqSerializedSizeWithFlags(SWFlagsBitSize)

\* CanonicalSerialize::serialized_size for Xsk233Projective
ProjectiveSerializedSize(self, compress) == CurveConfigSerializedSize(compress)

\* A decoder that drops the decoded point and returns the neutral it started
\* from.
ProjectiveDeserializeWithMode_DropsResult(reader, compress, validate) ==
    IF compress = "No"
    THEN [status |-> "Unsupported", point |-> xsk233_neutral, consumed |-> {0}]
    ELSE IF Len(reader) < 30
    THEN [status |-> "UnexpectedEof", point |-> xsk233_neutral,
          consumed |-> 0..Len(reader)]
    ELSE LET d == xsk233_decode(SubSeq(reader, 1, 30))
         IN IF d.success = U32Zero
            THEN [status |-> "Other", point |-> xsk233_neutral, consumed |-> {30}]
            ELSE [status |-> "Ok", point |-> xsk233_neutral, consumed |-> {30}]

\* A decoder that does not look at what the engine's decode reports.
ProjectiveDeserializeWithMode_Unchecked(reader, compress, validate) ==
    IF compress = "No"
    THEN [status |-> "Unsupported", point |-> xsk233_neutral, consumed |-> {0}]
    ELSE IF Len(reader) < 30
    THEN [status |-> "UnexpectedEof", point |-> xsk233_neutral,
          consumed |-> 0..Len(reader)]
    ELSE [status |-> "Ok", point |-> xsk233_decode(SubSeq(reader, 1, 30)).result,
          consumed |-> {30}]

\* CanonicalDeserialize::deserialize_with_mode for Xsk233Projective: the
\* outcome, the point of an Ok outcome, and the numbers of bytes the reader
\* may have given up (read_exact leaves that unspecified when it fails).
ProjectiveDeserializeWithMode(reader, compress, validate) ==
    IF compress = "No"
    THEN [status |-> "Unsupported", point |-> xsk233_neutral, consumed |-> {0}]
    ELSE IF Len(reader) < 30
    THEN [status |-> "UnexpectedEof", point |-> xsk233_neutral,
          consumed |-> 0..Len(reader)]
    ELSE LET bytes == SubSeq(reader, 1, 30)
             d == xsk233_decode(bytes)
         IN IF d.success = U32Zero
            THEN [status |-> "Other", point |-> xsk233_neutral, consumed |-> {30}]
            ELSE [status |-> "Ok", point |-> d.result, consumed |-> {30}]

\* CanonicalDeserialize::deserialize_with_mode for Xsk233Affine
AffineDeserializeWithMode(reader, compress, validate) ==
    LET r == ProjectiveDeserializeWithMode(reader, compress, validate)
    IN [r EXCEPT !.point = into_affine(r.point)]

\* CanonicalDeserialize::deserialize_compressed (provided method)
ProjectiveDeserializeCompressed(reader) ==
    ProjectiveDeserializeWithMode(reader, "Yes", "Yes")
AffineDeserializeCompressed(reader) ==
    AffineDeserializeWithMode(reader, "Yes", "Yes")

\* AffineRepr::from_random_bytes
from_random_bytes(bytes) ==
    LET r == ProjectiveDeserializeCompressed(bytes)
    IN IF r.status = "Ok"
       THEN [some |-> TRUE, value |-> into_affine(r.point)]
       ELSE [some |-> FALSE, value |-> xsk233_neutral]

\* Hash: state is the sequence of values the hasher has been fed.
\* A hash of the raw internal representation instead of the encoding.
ProjectiveHash_Raw(self, state) == Append(state, <<self.e, self.z>>)
ProjectiveHash(self, state) ==
    LET ser == ProjectiveSerializeCompressed(self, <<>>)
    IN IF ser.status = "Ok" THEN Append(state, ser.writer) ELSE state
AffineHash(self, state) == ProjectiveHash(into_group(self), state)

\* ------------------------------------------------------------ cofactor
\* CurveConfig::COFACTOR and COFACTOR_INV of Xsk233CurveConfig
COFACTOR == <<4>>
COFACTOR_INV == 1

\* Fr::from(u64) and the product in Fr
FrFromU64(n) == n % Order
FrMul(a, b) == (a * b) % Order

\* A multiplication by the cofactor 1 of the prime-order group.
mul_by_cofactor_to_group_One(self) == into_group(self)
\* AffineRepr::mul_by_cofactor_to_group: self.mul(Fr::from(COFACTOR[0]))
mul_by_cofactor_to_group(self) == AffineMul(self, FrFromU64(COFACTOR[1]))

\* AffineRepr::clear_cofactor
clear_cofactor(self) == into_affine(mul_by_cofactor_to_group(self))

\* ----------------------------------------------------------- sum, msm
\* impl_additive_ops_from_ref!: Sum<Self>, iter.fold(Self::zero(), Add::add)
RECURSIVE FoldOwned(_, _)
FoldOwned(sum, iter) ==
    IF iter = <<>> THEN sum
    ELSE FoldOwned(ProjectiveAdd(sum, Head(iter)), Tail(iter))
SumOwned(iter) == FoldOwned(ProjectiveZero, iter)

\* impl_additive_ops_from_ref!: Sum<&Self>
RECURSIVE FoldRef(_, _)
FoldRef(sum, iter) ==
    IF iter = <<>> THEN sum
    ELSE FoldRef(ProjectiveAddRef(sum, Head(iter)), Tail(iter))
SumRef(iter) == FoldRef(ProjectiveZero, iter)

\* Sum<T: Borrow<Xsk233Affine>>: fold(zero(), |sum, x| sum + x.borrow())
RECURSIVE FoldAffine(_, _)
FoldAffine(sum, iter) ==
    IF iter = <<>> THEN sum
    ELSE FoldAffine(ProjectiveAddAffine(sum, Head(iter)), Tail(iter))
\* A fold whose closure returns the item instead of adding it to the sum.
SumAffine_Last(iter) ==
    IF iter = <<>> THEN ProjectiveZero ELSE into_group(iter[Len(iter)])
SumAffine(iter) == FoldAffine(ProjectiveZero, iter)

Sum(kind, iter) ==
    CASE kind = "Owned" -> SumOwned(iter)
      [] kind = "Ref" -> SumRef(iter)
      [] kind = "Affine" -> SumAffine(iter)

\* VariableBaseMSM::msm, the provided method the empty impl inherits: the
\* sum of bases[i] * scalars[i], or an error when the lengths differ.
msm(bases, scalars) ==
    IF Len(bases) # Len(scalars)
    THEN [ok |-> FALSE, value |-> ProjectiveZero]
    ELSE [ok |-> TRUE,
          value |-> SumOwned([i \in 1..Len(bases) |-> AffineMul(bases[i], scalars[i])])]

\* ------------------------------------------- unimplemented methods, Valid
\* unimplemented!(..): the call panics; nothing is returned to the caller.
Unimplemented == [outcome |-> "panic"]

\* AffineRepr::xy
AffineXy(self) == Unimplemented

\* ToConstraintField::to_field_elements
AffineToFieldElements(self) == Unimplemented
ProjectiveToFieldElements(self) == AffineToFieldElements(into_affine(self))

\* A normalisation that converts every element and returns the vector.
normalize_batch_Converts(v) ==
    [outcome |-> "return", value |-> [i \in 1..Len(v) |-> into_affine(v[i])]]
\* CurveGroup::normalize_batch
normalize_batch(v) == Unimplemented

\* ScalarMul::batch_convert_to_mul_base
batch_convert_to_mul_base(bases) == normalize_batch(bases)

\* Valid::check
AffineCheck(self) == [outcome |-> "Ok"]
ProjectiveCheck(self) == AffineCheck(into_affine(self))

\* Valid::batch_check for Xsk233Affine, the provided method: check() on each
\* element, the first error if there is one.
AffineBatchCheck(batch) ==
    IF \A i \in 1..Len(batch) : AffineCheck(batch[i]).outcome = "Ok"
    THEN [outcome |-> "Ok"]
    ELSE [outcome |-> "Err"]

\* Valid::batch_check for Xsk233Projective: the batch is collected, handed to
\* normalize_batch, and the affine points it returns are checked.
ProjectiveBatchCheck(batch) ==
    LET collected == batch
        normalized == normalize_batch(collected)
    IN IF normalized.outcome = "panic"
       THEN normalized
       ELSE AffineBatchCheck(normalized.value)

\* ---------------------------------------------------------------- state
\* regs: the two point values the caller holds (an xsk233_point each; the
\* wrapper a call sees it through is an argument of the call).
\* call: the last call made, with its arguments and what it returned.
VARIABLES regs, call
vars == <<regs, call>>

Wrapper == {"Affine", "Projective"}
Forms == {"AA", "AP", "PA", "PP"}
SumKinds == {"Owned", "Ref", "Affine"}

\* Byte strings handed to the decoders: every canonical encoding, one cut to
\* 29 bytes, one followed by a further byte, two non-canonical ones, none.
Canonical == {xsk233_encode(pt) : pt \in Point}
Inputs ==
    Canonical
    \cup { SubSeq(xsk233_encode(xsk233_generator), 1, 29),
           xsk233_encode(xsk233_generator) \o <<9>>,
           [xsk233_encode(xsk233_generator) EXCEPT ![1] = 1],
           [xsk233_encode(xsk233_generator) EXCEPT ![30] = 128],
           <<>> }

\* Scalars handed to bigint_to_le_bytes on its own: the BigInts below the
\* modulus with at most MaxWords non-zero words, each a value of WordValues,
\* and the largest scalar, r - 1.
WordValues == {1, 128, 256, 65535}
RECURSIVE WordsUpTo(_)
WordsUpTo(n) ==
    IF n = 0 THEN {[i \in 1..16 |-> 0]}
    ELSE LET S == WordsUpTo(n - 1)
         IN S \cup {[s EXCEPT ![i] = v] : s \in S, i \in 1..16, v \in WordValues}
WordsToBigInt(ws) ==
    <<SubSeq(ws, 1, 4), SubSeq(ws, 5, 8), SubSeq(ws, 9, 12), SubSeq(ws, 13, 16)>>
FrModulusMinusOne == [FrModulus EXCEPT ![1][1] = @ - 1]
FrSamples ==
    {b \in {WordsToBigInt(ws) : ws \in WordsUpTo(MaxWords)} : BigIntLess(b, FrModulus)}
    \cup {FrModulusMinusOne}

\* Sequences over S of length at most n
SeqsUpTo(S, n) == UNION {[1..m -> S] : m \in 0..n}

Init == /\ regs = [i \in 1..2 |-> xsk233_neutral]
        /\ call = [op |-> "none"]

Generator(i) ==
    /\ regs' = [regs EXCEPT ![i] = AffineGenerator]
    /\ call' = [op |-> "generator"]

\* rand_xsk233_ark_point: Xsk233Affine::generator() * scalar
RandPoint(i, scalar) ==
    /\ regs' = [regs EXCEPT ![i] = AffineMul(AffineGenerator, scalar)]
    /\ call' = [op |-> "rand_point", k |-> scalar]

Zero(i) ==
    /\ regs' = [regs EXCEPT ![i] = AffineZero]
    /\ call' = [op |-> "zero"]

Neg(i, w) ==
    LET out == IF w = "Affine" THEN AffineNeg(regs[i]) ELSE ProjectiveNeg(regs[i])
    IN /\ regs' = [regs EXCEPT ![i] = out]
       /\ call' = [op |-> "neg", wrapper |-> w, x |-> regs[i], out |-> out]

Double(i) ==
    LET out == double_in_place(regs[i])
    IN /\ regs' = [regs EXCEPT ![i] = out]
       /\ call' = [op |-> "double", x |-> regs[i], out |-> out]

AddForm(form, x, y) ==
    CASE form = "AA" -> AffineAdd(x, y)
      [] form = "AP" -> AffineAddProjective(x, y)
      [] form = "PA" -> ProjectiveAddAffine(x, y)
      [] form = "PP" -> ProjectiveAdd(x, y)

SubForm(form, x, y) ==
    CASE form = "AA" -> AffineSub(x, y)
      [] form = "AP" -> AffineSubProjective(x, y)
      [] form = "PA" -> ProjectiveSubAffine(x, y)
      [] form = "PP" -> ProjectiveSub(x, y)

Add(i, j, form) ==
    LET out == AddForm(form, regs[i], regs[j])
    IN /\ regs' = [regs EXCEPT ![i] = out]
       /\ call' = [op |-> "add", form |-> form, x |-> regs[i], y |-> regs[j],
                   out |-> out]

Sub(i, j, form) ==
    LET out == SubForm(form, regs[i], regs[j])
    IN /\ regs' = [regs EXCEPT ![i] = out]
       /\ call' = [op |-> "sub", form |-> form, x |-> regs[i], y |-> regs[j],
                   out |-> out]

MulBy(w, x, k) == IF w = "Affine" THEN AffineMul(x, k) ELSE ProjectiveMul(x, k)

Mul(i, w, k) ==
    LET out == MulBy(w, regs[i], k)
    IN /\ regs' = [regs EXCEPT ![i] = out]
       /\ call' = [op |-> "mul", wrapper |-> w, x |-> regs[i], k |-> k,
                   bytes |-> bigint_to_le_bytes(into_bigint(k)), out |-> out]

Equals(i, j) ==
    /\ call' = [op |-> "eq", x |-> regs[i], y |-> regs[j],
                aa |-> AffineEq(regs[i], regs[j]),
                ap |-> AffineEqProjective(regs[i], regs[j]),
                pa |-> ProjectiveEqAffine(regs[i], regs[j]),
                pp |-> ProjectiveEq(regs[i], regs[j])]
    /\ UNCHANGED regs

SerializeBy(w, x, writer, c) ==
    IF w = "Affine" THEN AffineSerializeWithMode(x, writer, c)
    ELSE ProjectiveSerializeWithMode(x, writer, c)

DeserializeBy(w, reader, c, v) ==
    IF w = "Affine" THEN AffineDeserializeWithMode(reader, c, v)
    ELSE ProjectiveDeserializeWithMode(reader, c, v)

Serialize(i, w, c, before) ==
    LET r == SerializeBy(w, regs[i], before, c)
    IN /\ call' = [op |-> "serialize", wrapper |-> w, compress |-> c,
                   x |-> regs[i], before |-> before, writer |-> r.writer,
                   status |-> r.status]
       /\ UNCHANGED regs

Deserialize(i, w, c, v, reader) ==
    LET r == DeserializeBy(w, reader, c, v)
    IN /\ call' = [op |-> "deserialize", wrapper |-> w, compress |-> c,
                   validate |-> v, reader |-> reader, consumed |-> r.consumed,
                   status |-> r.status, point |-> r.point]
       /\ regs' = IF r.status = "Ok" THEN [regs EXCEPT ![i] = r.point] ELSE regs

SerializedSize(i, c) ==
    /\ call' = [op |-> "serialized_size", compress |-> c, x |-> regs[i],
                affine |-> AffineSerializedSize(regs[i], c),
                projective |-> ProjectiveSerializedSize(regs[i], c),
                written |-> [w \in Wrapper |->
                               Len(SerializeBy(w, regs[i], <<>>, "Yes").writer)]]
    /\ UNCHANGED regs

\* test_serialization: serialize_compressed into a new Vec, then
\* deserialize_compressed from a cursor over it.
RoundTrip(i, w) ==
    LET s == SerializeBy(w, regs[i], <<>>, "Yes")
        d == DeserializeBy(w, s.writer, "Yes", "Yes")
    IN /\ call' = [op |-> "roundtrip", wrapper |-> w, x |-> regs[i],
                   written |-> s.writer, wstatus |-> s.status,
                   status |-> d.status, point |-> d.point]
       /\ UNCHANGED regs

FromRandomBytes(i, bytes) ==
    LET r == from_random_bytes(bytes)
    IN /\ call' = [op |-> "from_random_bytes", reader |-> bytes,
                   some |-> r.some, value |-> r.value]
       /\ regs' = IF r.some THEN [regs EXCEPT ![i] = r.value] ELSE regs

HashBy(w, x, state) == IF w = "Affine" THEN AffineHash(x, state) ELSE ProjectiveHash(x, state)

HashPoint(i, w) ==
    /\ call' = [op |-> "hash", wrapper |-> w, x |-> regs[i],
                hasher |-> HashBy(w, regs[i], <<>>)]
    /\ UNCHANGED regs

SumPoints(kind, iter) ==
    /\ call' = [op |-> "sum", kind |-> kind, iter |-> iter, out |-> Sum(kind, iter)]
    /\ UNCHANGED regs

\* test_msm, a test of its own: it starts from the initial state.
\* g = G * scalar1, h = G * scalar2, msm1 = g + h,
\* msm2 = msm([G, G], [scalar1, scalar2]).unwrap()
TestMsm(scalar1, scalar2) ==
    LET g == AffineMul(AffineGenerator, scalar1)
        h == AffineMul(AffineGenerator, scalar2)
        msm1 == ProjectiveAdd(g, h)
        msm2 == msm(<<AffineGenerator, AffineGenerator>>, <<scalar1, scalar2>>)
    IN /\ call.op = "none"
       /\ regs' = [regs EXCEPT ![1] = msm1, ![2] = msm2.value]
       /\ call' = [op |-> "test_msm", scalar1 |-> scalar1, scalar2 |-> scalar2,
                   ok |-> msm2.ok]

\* test_equality, a test of its own: g = G * scalar1, h = G * scalar2
TestEquality(scalar1, scalar2) ==
    LET g == AffineMul(AffineGenerator, scalar1)
        h == AffineMul(AffineGenerator, scalar2)
    IN /\ call.op = "none"
       /\ regs' = [regs EXCEPT ![1] = g, ![2] = h]
       /\ call' = [op |-> "test_equality", scalar1 |-> scalar1,
                   scalar2 |-> scalar2, eq |-> ProjectiveEq(g, h)]

\* The calls below may panic.  A panic unwinds to the caller, who sees that
\* the call returned nothing; the points the caller holds are as they were.
Xy(i) ==
    /\ call' = [op |-> "xy", x |-> regs[i], outcome |-> AffineXy(regs[i]).outcome]
    /\ UNCHANGED regs

ToFieldElements(i, w) ==
    LET r == IF w = "Affine" THEN AffineToFieldElements(regs[i])
             ELSE ProjectiveToFieldElements(regs[i])
    IN /\ call' = [op |-> "to_field_elements", wrapper |-> w, x |-> regs[i],
                   outcome |-> r.outcome]
       /\ UNCHANGED regs

NormalizeBatch(v) ==
    /\ call' = [op |-> "normalize_batch", iter |-> v,
                outcome |-> normalize_batch(v).outcome]
    /\ UNCHANGED regs

BatchConvertToMulBase(bases) ==
    /\ call' = [op |-> "batch_convert_to_mul_base", iter |-> bases,
                outcome |-> batch_convert_to_mul_base(bases).outcome]
    /\ UNCHANGED regs

Check(i, w) ==
    LET r == IF w = "Affine" THEN AffineCheck(regs[i]) ELSE ProjectiveCheck(regs[i])
    IN /\ call' = [op |-> "check", wrapper |-> w, x |-> regs[i],
                   outcome |-> r.outcome]
       /\ UNCHANGED regs

BatchCheck(batch) ==
    /\ call' = [op |-> "batch_check", iter |-> batch,
                outcome |-> ProjectiveBatchCheck(batch).outcome,
                each |-> [i \in 1..Len(batch) |-> ProjectiveCheck(batch[i]).outcome]]
    /\ UNCHANGED regs

\* Every call form of + on the two points, none of them assigning: the
\* operands are copies or shared borrows of what the caller holds.
AddForms(i, j) ==
    LET p == regs[i]
        q == regs[j]
    IN /\ call' = [op |-> "add_forms", i |-> i, j |-> j, x |-> p, y |-> q,
                   out |-> << AffineAdd(p, q), AffineAddProjective(p, q),
                              AffineAddProjectiveRef(p, q),
                              ProjectiveAddAffine(p, q), ProjectiveAdd(p, q),
                              ProjectiveAddRef(p, q), ProjectiveAddMut(p, q),
                              RefProjectiveAdd(p, q), RefProjectiveAddRef(p, q),
                              RefProjectiveAddMut(p, q) >>]
       /\ UNCHANGED regs

SubForms(i, j) ==
    LET p == regs[i]
        q == regs[j]
    IN /\ call' = [op |-> "sub_forms", i |-> i, j |-> j, x |-> p, y |-> q,
                   out |-> << AffineSub(p, q), AffineSubProjective(p, q),
                              AffineSubProjectiveRef(p, q),
                              ProjectiveSubAffine(p, q), ProjectiveSub(p, q),
                              ProjectiveSubRef(p, q), ProjectiveSubMut(p, q),
                              RefProjectiveSub(p, q), RefProjectiveSubRef(p, q),
                              RefProjectiveSubMut(p, q) >>]
       /\ UNCHANGED regs

\* The assigning forms p += q and p -= q, p the first point.
AssignForm(form, p, q) ==
    CASE form = "+=A" -> ProjectiveAddAssignAffine(p, q)
      [] form = "+=" -> ProjectiveAddAssign(p, q)
      [] form = "+=&" -> ProjectiveAddAssignRef(p, q)
      [] form = "+=&mut" -> ProjectiveAddAssignMut(p, q)
      [] form = "-=A" -> ProjectiveSubAssignAffine(p, q)
      [] form = "-=" -> ProjectiveSubAssign(p, q)
      [] form = "-=&" -> ProjectiveSubAssignRef(p, q)
      [] form = "-=&mut" -> ProjectiveSubAssignMut(p, q)
AssignForms == {"+=A", "+=", "+=&", "+=&mut", "-=A", "-=", "-=&", "-=&mut"}

Assign(form, j) ==
    LET out == AssignForm(form, regs[1], regs[j])
    IN /\ regs' = [regs EXCEPT ![1] = out]
       /\ call' = [op |-> "assign", form |-> form, j |-> j, x |-> regs[1],
                   y |-> regs[j], out |-> out]

MulByCofactor(i) ==
    /\ call' = [op |-> "mul_by_cofactor", x |-> regs[i],
                out |-> mul_by_cofactor_to_group(regs[i]),
                clear |-> clear_cofactor(regs[i])]
    /\ UNCHANGED regs

\* The two constants of the curve configuration, as a caller reads them.
Cofactor ==
    /\ call' = [op |-> "cofactor", cofactor |-> COFACTOR,
                cofactor_inv |-> COFACTOR_INV]
    /\ UNCHANGED regs

\* bigint_to_le_bytes called on its own, on the BigInt of a scalar of Fr.
BigintToLeBytes(scalar) ==
    /\ call.op = "none"
    /\ call' = [op |-> "bigint_to_le_bytes", scalar |-> scalar,
                bytes |-> bigint_to_le_bytes(scalar)]
    /\ UNCHANGED regs

\* Group arithmetic and equality.
Next ==
    \/ \E i \in 1..2 : Generator(i)
    \/ \E i \in 1..2 : Zero(i)
    \/ \E i \in 1..2, w \in Wrapper : Neg(i, w)
    \/ \E i \in 1..2 : Double(i)
    \/ \E j \in 1..2, form \in Forms : Add(1, j, form)
    \/ \E j \in 1..2, form \in Forms : Sub(1, j, form)
    \/ \E w \in Wrapper, k \in Fr : Mul(1, w, k)
    \/ \E i, j \in 1..2 : Equals(i, j)
    \/ \E scalar1, scalar2 \in Fr : TestEquality(scalar1, scalar2)

Spec == Init /\ [][Next]_vars

\* Serialization, decoding and hashing of the points the caller can build.
NextSer ==
    \/ Generator(1)
    \/ Zero(1)
    \/ \E i \in 1..2, k \in Fr : RandPoint(i, k)
    \/ \E w \in Wrapper, c \in Compress, before \in {<<>>, <<170>>} :
          Serialize(1, w, c, before)
    \/ \E w \in Wrapper, c \in Compress, v \in Validate, reader \in Inputs :
          Deserialize(1, w, c, v, reader)
    \/ \E w \in Wrapper : RoundTrip(1, w)
    \/ \E i \in 1..2, c \in Compress : SerializedSize(i, c)
    \/ \E bytes \in Inputs : FromRandomBytes(1, bytes)
    \/ \E i \in 1..2, w \in Wrapper : HashPoint(i, w)

SpecSer == Init /\ [][NextSer]_vars

\* Sums and multi-scalar multiplication.
NextSum ==
    \/ \E i \in 1..2, k \in Fr : RandPoint(i, k)
    \/ \E kind \in SumKinds, iter \in SeqsUpTo({regs[1], regs[2]}, MaxItems) :
          SumPoints(kind, iter)
    \/ \E scalar1, scalar2 \in Fr : TestMsm(scalar1, scalar2)

SpecSum == Init /\ [][NextSum]_vars

\* The call forms of + and -, and the cofactor.
NextOps ==
    \/ \E i \in 1..2, k \in Fr : RandPoint(i, k)
    \/ \E i \in 1..2 : Double(i)
    \/ \E i, j \in 1..2 : AddForms(i, j)
    \/ \E i, j \in 1..2 : SubForms(i, j)
    \/ \E form \in AssignForms, j \in 1..2 : Assign(form, j)
    \/ \E i \in 1..2 : MulByCofactor(i)
    \/ Cofactor

SpecOps == Init /\ [][NextOps]_vars

\* The byte string of a scalar.
NextBytes ==
    /\ call.op = "none"
    /\ \E scalar \in FrSamples : BigintToLeBytes(scalar)

SpecBytes == Init /\ [][NextBytes]_vars

\* Validity checks and the methods the wrappers leave unimplemented.
NextValid ==
    \/ \E i \in 1..2, k \in Fr : RandPoint(i, k)
    \/ \E i \in 1..2 : Xy(i)
    \/ \E i \in 1..2, w \in Wrapper : ToFieldElements(i, w)
    \/ \E v \in SeqsUpTo({regs[1], regs[2]}, MaxItems) : NormalizeBatch(v)
    \/ \E bases \in SeqsUpTo({regs[1], regs[2]}, MaxItems) :
          BatchConvertToMulBase(bases)
    \/ \E i \in 1..2, w \in Wrapper : Check(i, w)
    \/ \E batch \in SeqsUpTo({regs[1], regs[2]}, MaxItems) : BatchCheck(batch)

SpecValid == Init /\ [][NextValid]_vars

\* --------------------------------------------------------- properties
EqBy(w1, w2, p, q) ==
    CASE w1 = "Affine" /\ w2 = "Affine" -> AffineEq(p, q)
      [] w1 = "Affine" /\ w2 = "Projective" -> AffineEqProjective(p, q)
      [] w1 = "Projective" /\ w2 = "Affine" -> ProjectiveEqAffine(p, q)
      [] w1 = "Projective" /\ w2 = "Projective" -> ProjectiveEq(p, q)

\* C1: compressed serialization of any point, through either wrapper, succeeds
\* and appends exactly 30 bytes to the writer; compressed deserialization of
\* those 30 bytes succeeds and returns a point equal to the one serialized.
C1_RoundTrip ==
    /\ (call.op = "serialize" /\ call.compress = "Yes") =>
          /\ call.status = "Ok"
          /\ Len(call.writer) = Len(call.before) + 30
          /\ SubSeq(call.writer, 1, Len(call.before)) = call.before
    /\ call.op = "roundtrip" =>
          /\ call.wstatus = "Ok"
          /\ Len(call.written) = 30
          /\ call.status = "Ok"
          /\ EqBy(call.wrapper, call.wrapper, call.point, call.x)
          /\ EqBy(call.wrapper, call.wrapper, call.x, call.point)

\* A point that is not the identity, held in a representation other than the
\* one decode produces, has made the round trip through the Affine wrapper.
C1_Witness ==
    /\ call.op = "roundtrip"
    /\ call.wrapper = "Affine"
    /\ call.x.e # 0
    /\ call.status = "Ok"
    /\ call.point # call.x

\* C2: the four equality operators return the same boolean on every pair of
\* points, the relation is reflexive, symmetric and transitive, and
\* G * a == G * b holds exactly when a = b in Fr.
C2_Equality ==
    /\ \A p, q \in {regs[1], regs[2]} :
          /\ \A w1, w2 \in Wrapper : EqBy(w1, w2, p, q) = ProjectiveEq(p, q)
          /\ \A w1, w2 \in Wrapper :
                /\ EqBy(w1, w2, p, p)
                /\ EqBy(w1, w2, p, q) = EqBy(w2, w1, q, p)
                /\ \A r \in Point, w3 \in Wrapper :
                      (EqBy(w1, w2, p, q) /\ EqBy(w2, w3, q, r)) => EqBy(w1, w3, p, r)
    /\ call.op = "eq" =>
          /\ call.aa = call.ap
          /\ call.ap = call.pa
          /\ call.pa = call.pp
    /\ call.op = "test_equality" =>
          /\ call.eq = (call.scalar1 = call.scalar2)
          /\ \A w1, w2 \in Wrapper :
                EqBy(w1, w2, regs[1], regs[2]) = (call.scalar1 = call.scalar2)

\* The operators have compared two values that differ in representation and
\* are the same group element, neither the identity.
C2_Witness ==
    /\ call.op = "eq"
    /\ call.x # call.y
    /\ call.x.e # 0
    /\ call.ap
    /\ call.pp

\* C3: points that are equal under the equality operators, whichever wrapper
\* holds each, feed the hasher the same value, the 30-byte compressed
\* encoding; hashing never leaves the hasher unfed.
C3_Hash ==
    /\ \A p, q \in {regs[1], regs[2]}, w1, w2 \in Wrapper :
          EqBy(w1, w2, p, q) => HashBy(w1, p, <<>>) = HashBy(w2, q, <<>>)
    /\ \A p \in {regs[1], regs[2]} :
          AffineHash(p, <<>>) = ProjectiveHash(into_group(p), <<>>)
    /\ call.op = "hash" =>
          /\ Len(call.hasher) = 1
          /\ Len(call.hasher[1]) = 30
          /\ call.hasher[1] = xsk233_encode(call.x)

\* A point that is not the identity has been hashed while the other register
\* holds the same element in another representation.
C3_Witness ==
    /\ call.op = "hash"
    /\ call.wrapper = "Affine"
    /\ call.x = regs[1]
    /\ regs[1] # regs[2]
    /\ regs[1].e = regs[2].e
    /\ regs[1].e # 0

\* C4: compressed deserialization returns an error exactly when fewer than 30
\* bytes are available or the engine's decode reports 0, and otherwise the
\* point the engine decoded; from_random_bytes returns None exactly when
\* compressed deserialization of the same bytes fails and the point otherwise.
C4_Decode ==
    /\ (call.op = "deserialize" /\ call.compress = "Yes") =>
          LET short == Len(call.reader) < 30
              d == IF short THEN xsk233_decode([i \in 1..30 |-> 0])
                   ELSE xsk233_decode(SubSeq(call.reader, 1, 30))
          IN /\ call.status \in {"Ok", "UnexpectedEof", "Other"}
             /\ (call.status # "Ok") = (short \/ d.success = U32Zero)
             /\ call.status = "Ok" =>
                   /\ d.success = C_XSK233_EQUALS_TRUE
                   /\ call.point = d.result
    /\ call.op = "from_random_bytes" =>
          LET r == ProjectiveDeserializeWithMode(call.reader, "Yes", "Yes")
              a == AffineDeserializeWithMode(call.reader, "Yes", "Yes")
          IN /\ call.some = (r.status = "Ok")
             /\ call.some = (a.status = "Ok")
             /\ call.some => call.value = r.point

\* Thirty bytes the engine rejects have been handed to the decoder.
C4_Witness ==
    /\ call.op = "deserialize"
    /\ call.compress = "Yes"
    /\ Len(call.reader) = 30
    /\ call.status = "Other"

\* C5: with Compress::No, serialization returns Unsupported and leaves the
\* writer as it was, and deserialization returns Unsupported and takes no
\* byte from the reader, whatever the Validate flag and the reader's content.
C5_Uncompressed ==
    /\ (call.op = "serialize" /\ call.compress = "No") =>
          /\ call.status = "Unsupported"
          /\ call.writer = call.before
    /\ (call.op = "deserialize" /\ call.compress = "No") =>
          /\ call.status = "Unsupported"
          /\ call.consumed = {0}

\* An uncompressed read has been asked of a reader that holds a canonical
\* encoding, which the compressed format would have accepted.
C5_Witness ==
    /\ call.op = "deserialize"
    /\ call.compress = "No"
    /\ call.validate = "No"
    /\ call.reader \in Canonical
    /\ call.status = "Unsupported"

NegBy(w, p) == IF w = "Affine" THEN AffineNeg(p) ELSE ProjectiveNeg(p)
IsZeroBy(w, p) == IF w = "Affine" THEN AffineIsZero(p) ELSE ProjectiveIsZero(p)
\* The wrapper of the right operand of a form
Right(form) == IF form \in {"AA", "PA"} THEN "Affine" ELSE "Projective"

\* The integer a byte string spells in unsigned little-endian order
RECURSIVE LeValue(_)
LeValue(bytes) ==
    IF bytes = <<>> THEN 0 ELSE Head(bytes) + 256 * LeValue(Tail(bytes))

\* C6: scalar multiplication is a homomorphism from Fr to the group: for
\* the point P and the scalar a of a multiplication, every scalar b and
\* either wrapper, P * a + P * b == P * (a + b), the sum taken modulo r.
C6_Homomorphism ==
    call.op = "mul" =>
        \A b \in Fr :
            /\ ProjectiveEq(
                   ProjectiveAdd(call.out, MulBy(call.wrapper, call.x, b)),
                   MulBy(call.wrapper, call.x, FrAdd(call.k, b)))
            /\ \A w \in Wrapper :
                  ProjectiveEq(
                     ProjectiveAdd(MulBy(w, call.x, call.k), MulBy(w, call.x, b)),
                     MulBy(w, call.x, FrAdd(call.k, b)))

\* A point other than the identity has been multiplied in place by the
\* largest scalar, so that a + b wraps around r for every b but 0.
C6_Witness ==
    /\ call.op = "mul"
    /\ call.wrapper = "Projective"
    /\ call.x.e # 0
    /\ call.k = Order - 1
    /\ call.out.e # 0

\* C7: for every point P and every combination of wrappers, P + (-P) and
\* P - P are the identity; the negation of the identity is the identity and
\* -(-P) == P.
C7_Inverse ==
    /\ \A p \in {regs[1], regs[2]} :
          /\ \A form \in Forms :
                /\ ProjectiveIsZero(AddForm(form, p, NegBy(Right(form), p)))
                /\ AffineIsZero(into_affine(AddForm(form, p, NegBy(Right(form), p))))
                /\ ProjectiveIsZero(AddForm(form, NegBy(Right(form), p), p))
                /\ ProjectiveIsZero(SubForm(form, p, p))
                /\ AffineIsZero(into_affine(SubForm(form, p, p)))
          /\ \A w \in Wrapper :
                /\ EqBy(w, w, NegBy(w, NegBy(w, p)), p)
                /\ IsZeroBy(w, p) => IsZeroBy(w, NegBy(w, p))
    /\ AffineIsZero(AffineNeg(AffineZero))
    /\ ProjectiveIsZero(ProjectiveNeg(ProjectiveZero))
    /\ call.op = "neg" =>
          /\ ProjectiveIsZero(ProjectiveAdd(call.x, call.out))
          /\ EqBy(call.wrapper, call.wrapper, NegBy(call.wrapper, call.out), call.x)

\* A point other than the identity has been negated through the Affine
\* wrapper.
C7_Witness ==
    /\ call.op = "neg"
    /\ call.wrapper = "Affine"
    /\ call.x.e # 0
    /\ call.out # call.x

\* C8: for every projective point P, the identity included,
\* double(P) == P + P.
C8_Double ==
    /\ \A p \in {regs[1], regs[2], ProjectiveZero} :
          /\ ProjectiveEq(double_in_place(p), ProjectiveAdd(p, p))
          /\ ProjectiveEq(double_in_place(p), ProjectiveAddRef(p, p))
    /\ call.op = "double" =>
          ProjectiveEq(call.out, ProjectiveAdd(call.x, call.x))

\* A point other than the identity has been doubled.
C8_Witness ==
    /\ call.op = "double"
    /\ call.x.e # 0
    /\ call.out.e # call.x.e

\* C9: P * 0 is the identity, the engine being handed an empty byte string,
\* and P * 1 == P, the engine being handed the one byte 0x01; for every
\* scalar k the Affine and the Projective multiplication of one point give
\* equal points, both equal to the engine's multiply on the stripped
\* little-endian bytes of k.
C9_ScalarMul ==
    call.op = "mul" =>
        /\ call.k = 0 =>
              /\ call.bytes = <<>>
              /\ ProjectiveIsZero(call.out)
        /\ call.k = 1 =>
              /\ call.bytes = <<1>>
              /\ ProjectiveEq(call.out, call.x)
        /\ LeValue(call.bytes) = call.k
        /\ call.bytes # <<>> => call.bytes[Len(call.bytes)] # 0
        /\ ProjectiveEq(AffineMul(call.x, call.k), ProjectiveMul(call.x, call.k))
        /\ \A w \in Wrapper :
              ProjectiveEq(MulBy(w, call.x, call.k),
                           xsk233_mul_frob(call.x, call.bytes, Len(call.bytes)))
        /\ ProjectiveEq(call.out,
                        xsk233_mul_frob(call.x, call.bytes, Len(call.bytes)))

\* A point other than the identity has been multiplied in place by 1.
C9_Witness ==
    /\ call.op = "mul"
    /\ call.wrapper = "Projective"
    /\ call.k = 1
    /\ call.x.e # 0
    /\ call.out # call.x

\* The engine's addition folded over a sequence from the left
RECURSIVE EngineFold(_, _)
EngineFold(acc, iter) ==
    IF iter = <<>> THEN acc
    ELSE EngineFold(xsk233_add(acc, Head(iter)), Tail(iter))

Perms(n) == {f \in [1..n -> 1..n] : \A i, j \in 1..n : f[i] = f[j] => i = j}
Permute(iter, f) == [i \in 1..Len(iter) |-> iter[f[i]]]

\* C10: the sum of a sequence of points (owned, borrowed or Affine items) is
\* the identity for the empty sequence and otherwise the left fold of
\* addition from the identity; it is the same for every permutation of the
\* sequence; msm of [G, G] with [a, b] equals G * a + G * b and G * (a + b).
C10_Sum ==
    /\ call.op = "sum" =>
          /\ call.iter = <<>> => call.out = ProjectiveZero
          /\ ProjectiveEq(call.out, EngineFold(xsk233_neutral, call.iter))
          /\ \A f \in Perms(Len(call.iter)) :
                ProjectiveEq(Sum(call.kind, Permute(call.iter, f)), call.out)
          /\ \A kind \in SumKinds : ProjectiveEq(Sum(kind, call.iter), call.out)
    /\ call.op = "test_msm" =>
          /\ call.ok
          /\ ProjectiveEq(regs[2], regs[1])
          /\ ProjectiveEq(regs[1],
                ProjectiveAdd(AffineMul(AffineGenerator, call.scalar1),
                              AffineMul(AffineGenerator, call.scalar2)))
          /\ ProjectiveEq(regs[2],
                AffineMul(AffineGenerator, FrAdd(call.scalar1, call.scalar2)))

\* Three Affine items, not all the same element, have been summed to a point
\* other than the identity.
C10_Witness ==
    /\ call.op = "sum"
    /\ call.kind = "Affine"
    /\ Len(call.iter) = 3
    /\ call.iter[1].e # call.iter[2].e
    /\ call.iter[3].e # 0
    /\ call.out.e # 0

\* C11: xy() and to_field_elements(), on whichever wrapper has them, and
\* normalize_batch and batch_convert_to_mul_base on every slice, the empty
\* one included, panic: the caller gets no Some, no None and no vector.
C11_Unimplemented ==
    call.op \in {"xy", "to_field_elements", "normalize_batch",
                 "batch_convert_to_mul_base"} =>
        call.outcome = "panic"

\* batch_convert_to_mul_base has been called on the empty slice.
C11_Witness ==
    /\ call.op = "batch_convert_to_mul_base"
    /\ call.iter = <<>>
    /\ call.outcome = "panic"

\* C13: check() returns Ok for every Affine and every Projective value, and
\* batch_check of Xsk233Projective over any finite sequence, the empty one
\* included, returns Ok, as check() does on each of its elements.
C13_CheckOk ==
    /\ call.op = "check" => call.outcome = "Ok"
    /\ call.op = "batch_check" =>
          /\ call.outcome = "Ok"
          /\ \A i \in 1..Len(call.iter) : call.each[i] = call.outcome

C15_CofactorInverse ==
    call.op = "cofactor" =>
        /\ call.cofactor[1] = 4
        /\ call.cofactor_inv = 1
        /\ FrMul(FrFromU64(call.cofactor[1]), call.cofactor_inv) = 1

\* C16: every call form of + on P and Q, whatever the wrappers and whether
\* the operands are passed by value or by reference, returns the element
\* P + Q of the engine, and every form of - the element P - Q, which is
\* P + (-Q); the forms that do not assign leave both operands as they were,
\* and the assigning ones change the left operand only.
C16_CallForms ==
    /\ call.op = "add_forms" =>
          /\ \A n \in 1..Len(call.out) :
                /\ ProjectiveEq(call.out[n], xsk233_add(call.x, call.y))
                /\ ProjectiveEq(call.out[n], ProjectiveAdd(call.x, call.y))
          /\ regs[call.i] = call.x
          /\ regs[call.j] = call.y
    /\ call.op = "sub_forms" =>
          /\ \A n \in 1..Len(call.out) :
                /\ ProjectiveEq(call.out[n], xsk233_sub(call.x, call.y))
                /\ ProjectiveEq(call.out[n],
                      ProjectiveAdd(call.x, ProjectiveNeg(call.y)))
          /\ regs[call.i] = call.x
          /\ regs[call.j] = call.y
    /\ call.op = "assign" =>
          /\ ProjectiveEq(call.out,
                IF call.form \in {"+=A", "+=", "+=&", "+=&mut"}
                THEN xsk233_add(call.x, call.y)
                ELSE xsk233_sub(call.x, call.y))
          /\ regs[1] = call.out
          /\ call.j = 2 => regs[2] = call.y

\* Two different elements, neither the identity, have been subtracted in
\* every form, and the difference is not the identity.
C16_Witness ==
    /\ call.op = "sub_forms"
    /\ call.x.e # 0
    /\ call.y.e # 0
    /\ call.x.e # call.y.e
    /\ call.out[8].e # 0
    /\ call.out[8].e = (call.x.e + Order - call.y.e) % Order

\* The byte at position n of a byte string continued with zeros
ByteAt(bytes, n) == IF n <= Len(bytes) THEN bytes[n] ELSE 0
\* The sixteen 16-bit words a byte string of at most 32 bytes spells in
\* unsigned little-endian order
BytesToWords(bytes) ==
    [i \in 1..16 |-> ByteAt(bytes, 2 * i - 1) + 256 * ByteAt(bytes, 2 * i)]

\* C14: for every scalar k of Fr, bigint_to_le_bytes(k) has at most 30 bytes
\* and spells k exactly in unsigned little-endian order (cutting the 32
\* bytes of the limbs to 30 loses nothing); its last byte is not zero when
\* there is one, and it is empty exactly when k is 0.
C14_ScalarBytes ==
    call.op = "bigint_to_le_bytes" =>
        /\ Len(call.bytes) <= 30
        /\ \A i \in 1..Len(call.bytes) : call.bytes[i] \in Byte
        /\ BytesToWords(call.bytes) = BigIntWords(call.scalar)
        /\ call.bytes # <<>> => call.bytes[Len(call.bytes)] # 0
        /\ (call.bytes = <<>>) <=> (call.scalar = BigIntZero)

\* The largest scalar, r - 1, has been converted: its top bit is bit 231 and
\* it takes 29 bytes.
C14_Witness ==
    /\ call.op = "bigint_to_le_bytes"
    /\ call.scalar = FrModulusMinusOne
    /\ Len(call.bytes) = 29
    /\ call.bytes[29] = 128

\* C17: for every point and every Compress mode, serialized_size of
\* Xsk233Affine and of Xsk233Projective return the same number, and in
\* compressed mode that number is 30, the number of bytes serialization
\* writes.
C17_SerializedSize ==
    call.op = "serialized_size" =>
        /\ call.affine = call.projective
        /\ call.compress = "Yes" =>
              /\ call.affine = 30
              /\ \A w \in Wrapper : call.written[w] = call.affine
====
